---------------------------- MODULE Spec2Model ----------------------------
(***************************************************************************)
(* Model of the date-tibetan calendar classes: CalendarTibetan (Phugpa)     *)
(* and its subclasses CalendarMongolian and CalendarBhutanese.              *)
(*                                                                         *)
(* The JavaScript code computes with IEEE doubles built from rational       *)
(* constants.  The model computes the same quantities exactly, as integers  *)
(* over fixed denominators:                                                 *)
(*   - a rational constant is a mixed number [int, num, den];               *)
(*   - a true date is [int, num] = int + num / TrueDen, 0 <= num < TrueDen; *)
(*   - an instant (a JD, a Date) is [d, ms] = d + ms / MsPerDay days.       *)
(* Products are split (long division) where a 32 bit integer would          *)
(* overflow.  A value the code keeps in a local variable and uses several   *)
(* times is passed on as the parameter of a helper operator.                *)
(***************************************************************************)
EXTENDS Integers, Sequences, FiniteSets

\* variant: the class of the object; cycle .. leapDay: its six fields;
\* wr: the last call that wrote the fields, [op, arg];
\* rd: the last call since then that only read them, [op, gyear, ret];
\* src: the other object the caller holds, an instance of the class or an
\* array, that set and the constructor can be given: [kind, f]
VARIABLES variant, cycle, year, month, leapMonth, day, leapDay, wr, rd, src

vars == <<variant, cycle, year, month, leapMonth, day, leapDay, wr, rd, src>>

(***************************************************************************)
(* Arithmetic of JavaScript numbers on integers.                            *)
(***************************************************************************)
\* Math.floor(a / b), b > 0
FloorDiv(a, b) == a \div b

\* Math.ceil(a / b), b > 0
CeilDiv(a, b) == -((-a) \div b)

\* a % b of JavaScript: the remainder takes the sign of the dividend
JsRem(a, b) == IF a >= 0 THEN a % b ELSE -((-a) % b)

\* a / b as the mixed number int + num/den
Mixed(a, b) == [int |-> a \div b, num |-> a % b, den |-> b]

\* i + a / b
MixedPlus(i, a, b) == [int |-> i + (a \div b), num |-> a % b, den |-> b]

RECURSIVE GCD(_, _)
GCD(a, b) == IF b = 0 THEN a ELSE GCD(b, a % b)

\* the fractional part of q as a numerator over den (den a multiple of q.den)
Over(q, den) == q.num * (den \div q.den)

(***************************************************************************)
(* The epoch constants of the three classes.                                *)
(***************************************************************************)
Tibetan == "Tibetan"
Mongolian == "Mongolian"
Bhutanese == "Bhutanese"
Variants == {Tibetan, Mongolian, Bhutanese}

M0(v) ==
    CASE v = Tibetan   -> MixedPlus(2015501, 4783, 5656)
      [] v = Mongolian -> MixedPlus(2359237, 2603, 2828)
      [] v = Bhutanese -> MixedPlus(2361807, 52, 707)
M1 == Mixed(167025, 5656)
M2 == Mixed(11135, 11312)

S0(v) ==
    CASE v = Tibetan   -> Mixed(743, 804)
      [] v = Mongolian -> Mixed(397, 402)
      [] v = Bhutanese -> MixedPlus(1, 1, 67)
S1 == Mixed(65, 804)
S2 == Mixed(13, 4824)

A0(v) ==
    CASE v = Tibetan   -> Mixed(475, 3528)
      [] v = Mongolian -> Mixed(1523, 1764)
      [] v = Bhutanese -> Mixed(17, 147)
A1 == Mixed(253, 3528)
A2 == Mixed(1, 28)

P0(v) ==
    CASE v = Tibetan   -> Mixed(139, 180)
      [] v = Mongolian -> Mixed(209, 270)
      [] v = Bhutanese -> Mixed(31, 40)

EPOCH_YEAR(v) ==
    CASE v = Tibetan   -> 806
      [] v = Mongolian -> 1747
      [] v = Bhutanese -> 1754

IS_BHUTAN_LEAP(v) == v = Bhutanese

EPOCH_RAB_BYUNG == 1027

moon_tab_values == <<0, 5, 10, 15, 19, 22, 24, 25>>
sun_tab_values == <<0, 6, 10, 11>>

\* milliseconds in a day: the unit of the fraction of an instant
MsPerDay == 24 * 60 * 60 * 1000

\* (6 + 4 / 60) / 24, 8 / 24 and 6 / 24 of a day, in milliseconds
JD_OFFSET_STD_TIME(v) ==
    CASE v = Tibetan   -> (6 * 60 + 4) * (MsPerDay \div (60 * 24))
      [] v = Mongolian -> 8 * (MsPerDay \div 24)
      [] v = Bhutanese -> 6 * (MsPerDay \div 24)

\* (-5 + 12) / 24 of a day, in milliseconds
JD_OFFSET_DAY_START == (-5 + 12) * (MsPerDay \div 24)

\* common denominators of the mean date, the mean sun and the moon anomaly
MeanDen == 11312
SunDen == 4824
MoonDen == 3528
\* 28 * anomaly_moon is a numerator over MoonDen / 28, 12 * anomaly_sun over SunDen / 12
MoonArgDen == MoonDen \div 28
SunArgDen == SunDen \div 12
\* denominator of a true date: lcm(MeanDen, 60 * MoonArgDen, 60 * SunArgDen)
TrueDen == 9045 * MeanDen

(***************************************************************************)
(* Month counter: alpha, beta, cycle/year, true month count.                *)
(***************************************************************************)
\* the numerator of the mixed number q over q.den
Numer(q) == q.int * q.den + q.num

\* num / den in lowest terms, g their greatest common divisor
ReducedBy(num, den, g) == [num |-> num \div g, den |-> den \div g]

\* _getAlpha: 12 * (S0 - P0) as the reduced fraction num / den
AlphaOf(s, p) ==
    ReducedBy(12 * (Numer(s) * p.den - Numer(p) * s.den), s.den * p.den,
              GCD(12 * (Numer(s) * p.den - Numer(p) * s.den), s.den * p.den))

GetAlpha(v) == AlphaOf(S0(v), P0(v))

\* _getBeta: Math.ceil(67 * alpha) - (IS_BHUTAN_LEAP ? 2 : 0)
BetaOf(alpha, bhutan) == CeilDiv(67 * alpha.num, alpha.den) - (IF bhutan THEN 2 ELSE 0)

GetBeta(v) == BetaOf(GetAlpha(v), IS_BHUTAN_LEAP(v))

\* _getGregorianYear
GetGregorianYear(f) == EPOCH_RAB_BYUNG + (f.cycle - 1) * 60 + (f.year - 1)

\* epochCycleFromYear
EpochCycleFromYear(gyear) ==
    [cycle |-> FloorDiv(gyear - EPOCH_RAB_BYUNG, 60) + 1,
     year  |-> JsRem(gyear - EPOCH_RAB_BYUNG, 60) + 1]

\* a wider test than the code's, residue 2 accepted too, under which a year
\* has two leap months: C7 does not hold of it
LeapResidueWide(mod_65_val) == mod_65_val = 0 \/ mod_65_val = 1 \/ mod_65_val = 2

\* the test of _isLeapMonthFromYearAndMonth on mod_65_val
LeapResidue(mod_65_val) == mod_65_val = 0 \/ mod_65_val = 1

\* _isLeapMonthFromYearAndMonth: M_prime = 12 * (Y - EPOCH_YEAR) + M,
\* mod_65_val = (M_prime * 2 - beta) % 65
IsLeapMonthFromYearAndMonth(v, Y, M) ==
    LeapResidue(JsRem((12 * (Y - EPOCH_YEAR(v)) + M) * 2 - GetBeta(v), 65))

\* Math.floor((k * X) / D) for X = x / den, divided in two steps
FloorScaled(k, X, D) == k * (X \div D) + FloorDiv(k * (X % D), D)

\* n of _getTrueMonthCount: Math.floor((67 * (M_prime - alpha)) / 65)
MonthCountBase(M_prime, alpha) ==
    FloorScaled(67, M_prime * alpha.den - alpha.num, 65 * alpha.den)

\* the return of _getTrueMonthCount for n, the leap test and the leapMonth field
MonthCountAdjust(n, isLeap, leap, bhutan) ==
    IF isLeap /\ leap THEN n + (IF bhutan THEN 1 ELSE -1) ELSE n

\* _getTrueMonthCount for the year Y
TrueMonthCountOfYear(v, Y, M, leap) ==
    MonthCountAdjust(MonthCountBase(12 * (Y - EPOCH_YEAR(v)) + M, GetAlpha(v)),
                     IsLeapMonthFromYearAndMonth(v, Y, M), leap, IS_BHUTAN_LEAP(v))

\* _getTrueMonthCount(gyear): gyear = 0 stands for no (or a falsy) hint
GetTrueMonthCount(v, f, gyear) ==
    TrueMonthCountOfYear(v, IF gyear # 0 THEN gyear ELSE GetGregorianYear(f),
                         f.month, f.leapMonth)

\* M of _getTibetanMonthFromTrueMonthCount: x % 12, 0 -> 12
MonthOfX(x) == IF JsRem(x, 12) = 0 THEN 12 ELSE JsRem(x, 12)

\* the return of _getTibetanMonthFromTrueMonthCount for x, M, L
MonthRecord(cy, M, L) == [cycle |-> cy.cycle, year |-> cy.year, month |-> M, leapMonth |-> L]

MonthFromX(x, M, leapX, epochYear) ==
    MonthRecord(EpochCycleFromYear(((x - M) \div 12) + epochYear), M, x = leapX)

\* _getTibetanMonthFromTrueMonthCount: x = Math.ceil((65 * n + beta) / 67),
\* leapX the same for n - 1 (Bhutanese) or n + 1
MonthFromCount(n, beta, bhutan, epochYear) ==
    MonthFromX(CeilDiv(65 * n + beta, 67),
               MonthOfX(CeilDiv(65 * n + beta, 67)),
               CeilDiv(65 * (IF bhutan THEN n - 1 ELSE n + 1) + beta, 67),
               epochYear)

GetTibetanMonthFromTrueMonthCount(v, trueMonthCount) ==
    MonthFromCount(trueMonthCount, GetBeta(v), IS_BHUTAN_LEAP(v), EPOCH_YEAR(v))

(***************************************************************************)
(* Equation tables and the true date.                                       *)
(***************************************************************************)
\* the table lookup of _linearInterpolate for x / den in [0, halfSymmetryLen]
InterpolateTable(x, den, tableValues, i) ==
    IF i < 0 THEN tableValues[1] * den
    ELSE IF i >= Len(tableValues) - 1
         THEN tableValues[Len(tableValues)] * den
         ELSE tableValues[i + 1] * (den - (x - i * den)) + tableValues[i + 2] * (x - i * den)

\* the fold of _linearInterpolate: x > halfSymmetryLen -> symmetryPoint - x
InterpolateFolded(x, den, tableValues, halfSymmetryLen, sign) ==
    IF x > halfSymmetryLen * den
    THEN sign * InterpolateTable(halfSymmetryLen * 2 * den - x, den, tableValues,
                                 FloorDiv(halfSymmetryLen * 2 * den - x, den))
    ELSE sign * InterpolateTable(x, den, tableValues, FloorDiv(x, den))

\* the antisymmetric part of _linearInterpolate: x >= symmetryPoint
InterpolateSigned(x, den, tableValues, halfSymmetryLen) ==
    IF x >= halfSymmetryLen * 2 * den
    THEN InterpolateFolded(x - halfSymmetryLen * 2 * den, den, tableValues, halfSymmetryLen, -1)
    ELSE InterpolateFolded(x, den, tableValues, halfSymmetryLen, 1)

\* the remainder left as JavaScript's % gives it, negative for a negative
\* x_in, which then reads the first table value: C18 does not hold of it
InterpolateReduceSigned(x, period) == x

\* x_in % periodLen, plus periodLen when negative
InterpolateReduce(x, period) == IF x < 0 THEN x + period ELSE x

\* _linearInterpolate on x_in / den: the value as a numerator over den
LinearInterpolate(x_in, den, tableValues, halfSymmetryLen, periodLen) ==
    InterpolateSigned(InterpolateReduce(JsRem(x_in, periodLen * den), periodLen * den),
                      den, tableValues, halfSymmetryLen)

\* a true date int + num / TrueDen, normalised to 0 <= num < TrueDen
TrueDate(int, num) == [int |-> int + (num \div TrueDen), num |-> num % TrueDen]

\* a mean date without its term d * M2, the same on every day of a month:
\* C20 does not hold of it
MeanDateNumOfMonth(v, n, d) == n * Over(M1, MeanDen) + Over(M0(v), MeanDen)

\* mean_date of getTrueDate: its fraction as a numerator over MeanDen
MeanDateNum(v, n, d) == n * Over(M1, MeanDen) + d * Over(M2, MeanDen) + Over(M0(v), MeanDen)

\* mean_sun of getTrueDate, modulo 1, as a numerator over SunDen
MeanSun(v, n, d) ==
    (n * Over(S1, SunDen) + d * Over(S2, SunDen) + S0(v).int * SunDen + Over(S0(v), SunDen))
        % SunDen

\* anomaly_moon of getTrueDate, modulo 1, as a numerator over MoonDen
AnomalyMoon(v, n, d) ==
    (n * Over(A1, MoonDen) + d * Over(A2, MoonDen) + Over(A0(v), MoonDen)) % MoonDen

\* true_date = mean_date + moon_equ / 60 - sun_equ / 60
TrueDateSum(meanInt, meanNum, moon_equ, sun_equ) ==
    TrueDate(meanInt + (meanNum \div MeanDen),
             (meanNum % MeanDen) * (TrueDen \div MeanDen)
                + moon_equ * (TrueDen \div (60 * MoonArgDen))
                - sun_equ * (TrueDen \div (60 * SunArgDen)))

\* getTrueDate(n, d) as [int, num]: int + num / TrueDen, 0 <= num < TrueDen
GetTrueDate(v, trueMonthCount, lunarDay) ==
    TrueDateSum(trueMonthCount * M1.int + lunarDay * M2.int + M0(v).int,
                MeanDateNum(v, trueMonthCount, lunarDay),
                LinearInterpolate(AnomalyMoon(v, trueMonthCount, lunarDay),
                                  MoonArgDen, moon_tab_values, 7, 28),
                LinearInterpolate((MeanSun(v, trueMonthCount, lunarDay) - (SunDen \div 4)) % SunDen,
                                  SunArgDen, sun_tab_values, 3, 12))

\* trueDate > k for an integer k
TrueDateGt(t, k) == t.int > k \/ (t.int = k /\ t.num > 0)

(***************************************************************************)
(* Date resolver: _from (day number -> date) and toJDN (date -> day number). *)
(***************************************************************************)
Date(c, y, m, lm, d, ld) ==
    [cycle |-> c, year |-> y, month |-> m, leapMonth |-> lm, day |-> d, leapDay |-> ld]

\* what the two Math.floor of _from give where (jdn - M0) / M2 is a whole
\* number and the exact floors are (n, day): the quotients are computed in
\* doubles, which give the whole number itself or fall just below it
FromApproxBelow(n, d) ==
    IF d = 0
    THEN {[n |-> n, day |-> 0], [n |-> n, day |-> -1], [n |-> n - 1, day |-> 29]}
    ELSE {[n |-> n, day |-> d], [n |-> n, day |-> d - 1]}

\* the first approximation of _from for a = jdn - floor(M0), M1 = P / Q:
\* n = Math.floor((jdn - M0) / M1), day = Math.floor((jdn - M0 - n * M1) / M2),
\* with w / Q the part of jdn - M0 left after (a \div P) * Q months; the set
\* of the (n, day) the doubles can give
FromApproxRest(a, P, Q, w) ==
    IF ((w % P) * M2.den) % (Q * Numer(M2)) = 0
    THEN FromApproxBelow((a \div P) * Q + FloorDiv(w, P),
                         FloorDiv((w % P) * M2.den, Q * Numer(M2)))
    ELSE {[n |-> (a \div P) * Q + FloorDiv(w, P),
           day |-> FloorDiv((w % P) * M2.den, Q * Numer(M2))]}

FromApproxOf(a, P, Q, m0) == FromApproxRest(a, P, Q, (a % P) * Q - m0)

FromApprox(v, jdn) == FromApproxOf(jdn - M0(v).int, Numer(M1), M1.den, Over(M0(v), M1.den))

\* the loop of _from: at most 3 evaluations of getTrueDate from (n, day);
\* found is FALSE when the loop ends by i reaching 3
RECURSIVE FromLoop(_, _, _, _, _)
FromStep(v, jdn, n, d, i, trueDate) ==
    IF TrueDateGt(trueDate, jdn + 1)
    THEN [n |-> n, day |-> d, leapDay |-> TRUE, found |-> TRUE]
    ELSE IF TrueDateGt(trueDate, jdn)
         THEN [n |-> n, day |-> d, leapDay |-> FALSE, found |-> TRUE]
         ELSE FromLoop(v, jdn, n, d + 1, i + 1)

\* a loop of 2 evaluations only, which ends without a bracket for the days
\* whose label lies 2 after the approximation: C17 does not hold of it
FromLoopTwice(v, jdn, n, d, i) ==
    IF i >= 2 THEN [n |-> n, day |-> d, leapDay |-> FALSE, found |-> FALSE]
    ELSE FromStep(v, jdn, n, d, i, GetTrueDate(v, n, d))

FromLoop(v, jdn, n, d, i) ==
    IF i >= 3 THEN [n |-> n, day |-> d, leapDay |-> FALSE, found |-> FALSE]
    ELSE FromStep(v, jdn, n, d, i, GetTrueDate(v, n, d))

\* the month-boundary rewrite of _from: day 0 -> (n - 1, 30), day > 30 -> (n + 1, day - 30)
FromNormaliseUp(r) ==
    IF r.day > 30 THEN [r EXCEPT !.n = r.n + 1, !.day = r.day - 30] ELSE r

FromNormalise(r) ==
    FromNormaliseUp(IF r.day = 0 THEN [r EXCEPT !.n = r.n - 1, !.day = 30] ELSE r)

\* the loop of _from started at the approximation a
FromLoopAt(v, jdn, a) == FromLoop(v, jdn, a.n, a.day, 0)

\* the exits of the loop of _from for jdn, run from its approximations
LoopOf(v, jdn) == {FromLoopAt(v, jdn, a) : a \in FromApprox(v, jdn)}

\* the (n, day, leapDay) _from resolves for the integer jdn
FromResolve(v, jdn) == {FromNormalise(r) : r \in LoopOf(v, jdn)}

\* the six fields _from stores: the month of r.n, r.day and r.leapDay
FromFields(m, r) == Date(m.cycle, m.year, m.month, m.leapMonth, r.day, r.leapDay)

\* the six fields _from stores for the integer jdn
FromJdn(v, jdn) ==
    {FromFields(GetTibetanMonthFromTrueMonthCount(v, r.n), r) : r \in FromResolve(v, jdn)}

\* how far the double that toFixed rounds can lie from the exact local time
\* of day d, in 1 / 216 of the seventh decimal (1 ms is 25 / 216 of it): the
\* double passed in and the two additions of _jdToJdLocal are each rounded
\* to a double, by half of 2^(k - 52) at most where 2^k <= |jd| < 2^(k + 1),
\* and 3 * 2^(k - 53) * 216 * 10^7 = 810000000 / 2^(50 - k), below 1 for
\* k < 21
ToFixedSlack(d) ==
    IF (IF d < 0 THEN -d ELSE d) + 1 < 2097152 THEN 0
    ELSE 810000000
             \div 2^(50 - (CHOOSE k \in 21 .. 30 : ((IF d < 0 THEN -d ELSE d) + 1) \div 2^k = 1))

\* toFixed(jd, 7) for the time ms of day d: the 7 decimals n / 10^7 nearest
\* to the double jd.  They are the nearest to the exact time ms / MsPerDay
\* unless that lies within the slack of the middle between two of them
\* (at the middle itself, 25 * ms % 216 = 108, always), where the double
\* can lie on either side and either neighbour can be returned
ToFixed7(d, ms) ==
    {25 * (ms \div 216) + j :
        j \in CeilDiv(25 * (ms % 216) - 108 - ToFixedSlack(d), 216)
               .. FloorDiv(25 * (ms % 216) + 108 + ToFixedSlack(d), 216)}

\* Math.trunc(parseFloat(..)) of the string toFixed made, d + f7 / 10^7, which
\* is whole + frac / 10^7 with 0 <= frac < 10^7.  parseFloat gives the
\* nearest double: from 2^30 on the doubles lie 2^(-22) apart, more than
\* twice 10^(-7), and a string 10^(-7) from a whole number parses to that
\* whole number; below 2^30 it parses to a double strictly between the whole
\* numbers.  Math.trunc drops the fraction, towards 0.
TruncOf(d, f7) ==
    LET whole == d + FloorDiv(f7, 10000000)
        frac == f7 % 10000000
        far == whole >= 1073741824 \/ whole < -1073741824
    IN  IF far /\ frac = 9999999 THEN whole + 1
        ELSE IF whole < 0 /\ frac > 0 /\ ~(far /\ frac = 1) THEN whole + 1
        ELSE whole

\* jdn of _from: Math.trunc(toFixed(jd, 7)) for the instant jd
TruncFixed(jd) == {TruncOf(jd.d, f7) : f7 \in ToFixed7(jd.d, jd.ms)}

\* _from(jd) for the instant jd
From(v, jd) == UNION {FromJdn(v, jdn) : jdn \in TruncFixed(jd)}

\* true_date > prevTrueDate, and the step of their floors
TrueDateStep(trueDate, prevTrueDate) ==
    /\ \/ trueDate.int > prevTrueDate.int
       \/ trueDate.int = prevTrueDate.int /\ trueDate.num > prevTrueDate.num
    /\ trueDate.int - prevTrueDate.int \in {0, 1, 2}

\* skipped and repeated labels, as toJDN tests them
IsSkippedDay(v, n, d) == GetTrueDate(v, n, d).int = GetTrueDate(v, n, d - 1).int
IsRepeatedDay(v, n, d) == GetTrueDate(v, n, d).int = GetTrueDate(v, n, d - 1).int + 2

\* toJDN without its adjustment for a skipped label, under which a skipped
\* label has the day number of the label before it: C8 does not hold of it
ToJDNAdjustNoSkip(jdn, prevJdn, ld) == IF jdn = prevJdn + 2 /\ ld THEN jdn - 1 ELSE jdn

\* toJDN subtracting 1 for every leapDay = true, repeated label or not: C19
\* does not hold of it
ToJDNAdjustAnyLeapDay(jdn, prevJdn, ld) ==
    (IF ld THEN jdn - 1 ELSE jdn) + (IF jdn = prevJdn THEN 1 ELSE 0)

\* the adjustments of toJDN: jdn - 1 for a leap day of a repeated label,
\* jdn + 1 for a skipped label
ToJDNAdjust(jdn, prevJdn, ld) ==
    (IF jdn = prevJdn + 2 /\ ld THEN jdn - 1 ELSE jdn) + (IF jdn = prevJdn THEN 1 ELSE 0)

\* toJDN for the true month count n
ToJDNOfCount(v, n, d, ld) ==
    ToJDNAdjust(GetTrueDate(v, n, d).int, GetTrueDate(v, n, d - 1).int, ld)

\* toJDN(gyear)
ToJDN(v, f, gyear) == ToJDNOfCount(v, GetTrueMonthCount(v, f, gyear), f.day, f.leapDay)

(***************************************************************************)
(* Instants and the local offset.                                           *)
(***************************************************************************)
\* the instant d + ms / MsPerDay with 0 <= ms < MsPerDay
Instant(d, ms) == [d |-> d + (ms \div MsPerDay), ms |-> ms % MsPerDay]

\* the local offset added twice: C9 does not hold of it
JdToJdLocalTwice(v, jd) ==
    Instant(jd.d, jd.ms + 2 * (JD_OFFSET_STD_TIME(v) + JD_OFFSET_DAY_START))

\* _jdToJdLocal
JdToJdLocal(v, jd) == Instant(jd.d, jd.ms + JD_OFFSET_STD_TIME(v) + JD_OFFSET_DAY_START)

\* _jdLocalToJd
JdLocalToJd(v, jdLocal) ==
    Instant(jdLocal.d, jdLocal.ms - JD_OFFSET_STD_TIME(v) - JD_OFFSET_DAY_START)

(***************************************************************************)
(* The Julian Day library the classes call (astronomia's julian module).    *)
(***************************************************************************)
\* the day number at 12:00 of day d of month m >= 3 of year y (January and
\* February counted as months 13 and 14 of the year before)
GregorianToJDNOf(y, m, d, a) ==
    FloorDiv(36525 * (y + 4716), 100) + FloorDiv(306 * (m + 1), 10)
        + (2 - a + FloorDiv(a, 4)) + d - 1524

\* new julian.CalendarGregorian(y, m, d).toJD() + 0.5: the day number at 12:00
CalendarGregorianToJDN(g) ==
    IF g.month < 3
    THEN GregorianToJDNOf(g.year - 1, g.month + 12, g.day, FloorDiv(g.year - 1, 100))
    ELSE GregorianToJDNOf(g.year, g.month, g.day, FloorDiv(g.year, 100))

CalendarOfM(bd, c, e, m) ==
    [year |-> IF m < 3 THEN c - 4715 ELSE c - 4716,
     month |-> m,
     day |-> bd - FloorDiv(306001 * e, 10000)]

CalendarOfE(bd, c, e) == CalendarOfM(bd, c, e, IF e = 14 \/ e = 15 THEN e - 13 ELSE e - 1)

CalendarOfD(bd, c) == CalendarOfE(bd, c, FloorDiv(bd * 10000, 306001))

CalendarOfC(b, c) == CalendarOfD(b - FloorDiv(36525 * c, 100), c)

CalendarOfB(b) == CalendarOfC(b, FloorDiv(b * 100 - 12210, 36525))

CalendarOfAlpha(z, alpha) == CalendarOfB(z + 1 + alpha - FloorDiv(alpha, 4) + 1524)

\* julian.JDToCalendarGregorian(jdn - 0.5): the civil date of day number jdn
JDNToCalendarGregorian(jdn) == CalendarOfAlpha(jdn, FloorDiv(jdn * 100 - 186721625, 3652425))

\* a Date is [d, ms]: days and milliseconds since 1970-01-01T00:00Z = JD 2440587.5
J1970 == [d |-> 2440587, ms |-> MsPerDay \div 2]

\* new julian.CalendarGregorian().fromDate(date).toJD()
DateToJD(date) == Instant(date.d + J1970.d, date.ms + J1970.ms)

\* new julian.CalendarGregorian().fromJD(jd).toDate()
JDToDate(jd) == Instant(jd.d - J1970.d, jd.ms - J1970.ms)

(***************************************************************************)
(* The object: its fields and its methods.                                  *)
(***************************************************************************)
\* the six fields of the object, as a record
Fields == Date(cycle, year, month, leapMonth, day, leapDay)

FieldTuple(f) == <<f.cycle, f.year, f.month, f.leapMonth, f.day, f.leapDay>>

NoRead == [op |-> "none", gyear |-> 0, ret |-> <<>>]

\* no other object is held
NoSource == [kind |-> "none", f |-> <<>>]

\* assignments that leave leapDay as it was: C11 does not hold of them
StoreButLeapDay(f) ==
    /\ cycle' = f.cycle
    /\ year' = f.year
    /\ month' = f.month
    /\ leapMonth' = f.leapMonth
    /\ day' = f.day
    /\ UNCHANGED leapDay

\* the assignments of set
Store(f) ==
    /\ cycle' = f.cycle
    /\ year' = f.year
    /\ month' = f.month
    /\ leapMonth' = f.leapMonth
    /\ day' = f.day
    /\ leapDay' = f.leapDay

\* a call that writes the fields
Write(name, a, f) ==
    /\ Store(f)
    /\ wr' = [op |-> name, arg |-> a]
    /\ rd' = NoRead
    /\ UNCHANGED <<variant, src>>

\* a call that returns r and leaves the fields alone
Read(name, gyear, r) ==
    /\ rd' = [op |-> name, gyear |-> gyear, ret |-> r]
    /\ UNCHANGED <<variant, cycle, year, month, leapMonth, day, leapDay, wr, src>>

\* constructor(cycle, .., leapDay): the constants of the class, then set
Constructor(v, f) ==
    /\ variant = v
    /\ cycle = f.cycle
    /\ year = f.year
    /\ month = f.month
    /\ leapMonth = f.leapMonth
    /\ day = f.day
    /\ leapDay = f.leapDay
    /\ wr = [op |-> "constructor", arg |-> FieldTuple(f)]
    /\ rd = NoRead
    /\ src = NoSource

\* set(cycle, year, month, leapMonth, day, leapDay) with six arguments
Set(f) == Write("set", FieldTuple(f), f)

\* get()
Get == Read("get", 0, FieldTuple(Fields))

\* fromJD(jd), jd an instant
FromJD(jd) ==
    \E f \in From(variant, JdToJdLocal(variant, jd)) : Write("fromJD", <<jd.d, jd.ms>>, f)

\* fromGregorian(year, month, day)
FromGregorian(g) ==
    \E f \in From(variant, Instant(CalendarGregorianToJDN(g), 0)) :
        Write("fromGregorian", <<g.year, g.month, g.day>>, f)

\* fromDate(date)
FromDate(date) ==
    \E f \in From(variant, JdToJdLocal(variant, DateToJD(date))) :
        Write("fromDate", <<date.d, date.ms>>, f)

\* toJDN(gyear)
CallToJDN(gyear) == Read("toJDN", gyear, <<ToJDN(variant, Fields, gyear)>>)

GregorianTuple(cal) == <<cal.year, cal.month, cal.day>>

\* toGregorian(gyear)
ToGregorian(gyear) ==
    Read("toGregorian", gyear,
         GregorianTuple(JDNToCalendarGregorian(ToJDN(variant, Fields, gyear))))

InstantTuple(t) == <<t.d, t.ms>>

\* toDate(gyear)
ToDate(gyear) ==
    Read("toDate", gyear,
         InstantTuple(JDToDate(JdLocalToJd(variant, Instant(ToJDN(variant, Fields, gyear), 0)))))

(***************************************************************************)
(* Inputs.                                                                  *)
(***************************************************************************)
\* days in each window of day numbers
Span == 10

\* the hints toJDN, toGregorian and toDate are called with (0: none)
GyearHints == {0, 2020}

\* first day numbers of the windows of each class: a month boundary that
\* _from resolves with day 31 or day 0, a leap month, the start of cycle 1,
\* the epoch of the class, and days for which (jdn - M0) / M2 is a whole
\* number (2477689, 2455419; 2480963, 2647988; 2454163)
WindowStarts(v) ==
    CASE v = Tibetan   -> {2479864, 2457510, 2096174, 2015440, 2477685, 2455415}
      [] v = Mongolian -> {2360790, 2460730, 2096174, 2359180, 2480959, 2647984}
      [] v = Bhutanese -> {2458957, 2361770, 2096174, 2454159}

Days(v) == UNION {s .. (s + Span - 1) : s \in WindowStarts(v)}

GregorianDates(v) == {JDNToCalendarGregorian(j) : j \in Days(v)}

InitialDates == {Date(17, 21, 1, FALSE, 2, FALSE)}

(***************************************************************************)
(* Specification of the conversions between Gregorian and Tibetan dates.    *)
(***************************************************************************)
Init == \E v \in Variants : \E f \in InitialDates : Constructor(v, f)

NextGregorian ==
    \/ \E g \in GregorianDates(variant) : FromGregorian(g)
    \/ \E gyear \in GyearHints : CallToJDN(gyear)
    \/ \E gyear \in GyearHints : ToGregorian(gyear)
    \/ Get

SpecGregorian == Init /\ [][NextGregorian]_vars

\* the argument of fromGregorian as a calendar date
GregorianArg(a) == [year |-> a[1], month |-> a[2], day |-> a[3]]

\* the calendar-day label of the fields: all of them but leapDay
Label == <<cycle, year, month, leapMonth, day>>

LabelOf(f) == <<f.cycle, f.year, f.month, f.leapMonth, f.day>>

\* C1: CalendarTibetan: for every Gregorian date (y, m, d) with y >= 1027
\* (cycle >= 1), fromGregorian(y, m, d) followed by toGregorian() returns
\* (y, m, d), and toJDN() on the fields _from(j) stored returns j.
C1_TibetanGregorianRoundTrip ==
    (/\ variant = Tibetan
     /\ wr.op = "fromGregorian"
     /\ wr.arg[1] >= EPOCH_RAB_BYUNG
     /\ cycle >= 1
     /\ rd.gyear = 0)
    => /\ rd.op = "toGregorian" => rd.ret = wr.arg
       /\ rd.op = "toJDN" => rd.ret = <<CalendarGregorianToJDN(GregorianArg(wr.arg))>>

\* C2: CalendarMongolian and CalendarBhutanese: for every Gregorian date
\* (y, m, d) with y >= 1027 (cycle >= 1), dates before the epoch year of the
\* class included, fromGregorian(y, m, d) followed by toGregorian() returns
\* (y, m, d).
C2_VariantGregorianRoundTrip ==
    (/\ variant \in {Mongolian, Bhutanese}
     /\ wr.op = "fromGregorian"
     /\ wr.arg[1] >= EPOCH_RAB_BYUNG
     /\ cycle >= 1
     /\ rd.op = "toGregorian"
     /\ rd.gyear = 0)
    => rd.ret = wr.arg

\* C6: for every day number j, _from(j) sets leapDay exactly when _from(j + 1)
\* yields the same label (cycle, year, month, leapMonth, day), _from(j + 1)
\* then has leapDay = false, and no label is produced for three days in a row.
C6_LeapDayMarksFirstOfPair ==
    [][(/\ wr.op = "fromGregorian"
        /\ wr'.op = "fromGregorian"
        /\ CalendarGregorianToJDN(GregorianArg(wr'.arg))
              = CalendarGregorianToJDN(GregorianArg(wr.arg)) + 1)
       => /\ leapDay <=> (Label' = Label)
          /\ leapDay => ~leapDay'
          /\ Label' = Label =>
                \A f \in FromJdn(variant, CalendarGregorianToJDN(GregorianArg(wr'.arg)) + 1) :
                    LabelOf(f) # Label]_vars

\* the day number passed to _from by the last fromGregorian
WrittenJdn == CalendarGregorianToJDN(GregorianArg(wr.arg))

\* C16: the (n, day) that _from(j) resolves is no skipped label, and toJDN's
\* skipped-day test is false for the fields _from(j) has stored.
\* Violated: CalendarMongolian fromGregorian(1751, 7, 12) stores
\* (13, 5, 6, true, 19, false), for which toJDN finds isSkippedDay true.
C16_NoSkippedLabel ==
    (wr.op = "fromGregorian" /\ cycle >= 1 /\ year \in 1 .. 60 /\ month \in 1 .. 12)
    => /\ \A r \in FromResolve(variant, WrittenJdn) : ~IsSkippedDay(variant, r.n, r.day)
       /\ ~IsSkippedDay(variant, GetTrueMonthCount(variant, Fields, 0), day)

\* r brackets jdn: getTrueDate(n, day) > jdn and getTrueDate(n, day - 1) <= jdn
Brackets(v, jdn, r) ==
    /\ TrueDateGt(GetTrueDate(v, r.n, r.day), jdn)
    /\ ~TrueDateGt(GetTrueDate(v, r.n, r.day - 1), jdn)

\* C17: the loop of _from leaves through one of its two break branches within
\* its 3 iterations, and on exit getTrueDate(n, day) > jdn and
\* getTrueDate(n, day - 1) <= jdn for the (n, day) not yet normalised.
C17_LoopFindsBracket ==
    wr.op = "fromGregorian"
    => \A r \in LoopOf(variant, WrittenJdn) :
           r.found /\ Brackets(variant, WrittenJdn, r)

\* the case of C17: _from has left its loop in the third iteration, from
\* an approximation that fell below a whole quotient
C17_Witness ==
    /\ wr.op = "fromGregorian"
    /\ Cardinality(FromApprox(variant, WrittenJdn)) > 1
    /\ \E a \in FromApprox(variant, WrittenJdn) :
          /\ FromLoopAt(variant, WrittenJdn, a).found
          /\ FromLoopAt(variant, WrittenJdn, a).day = a.day + 2
          /\ day = FromNormalise(FromLoopAt(variant, WrittenJdn, a)).day

\* the true dates on the two sides of the boundaries of month n agree
BoundaryAgrees(v, n) ==
    /\ GetTrueDate(v, n, 0) = GetTrueDate(v, n - 1, 30)
    /\ GetTrueDate(v, n, 31) = GetTrueDate(v, n + 1, 1)

\* C21: for the true month count n that _from resolves,
\* getTrueDate(n, 0) = getTrueDate(n - 1, 30) and
\* getTrueDate(n, 31) = getTrueDate(n + 1, 1), so the rewrites of day 0 and
\* day 31 in _from name the same true date as the neighbouring month's day.
\* Violated: CalendarTibetan fromGregorian(2077, 7, 20): _from leaves its
\* loop with (15724, 31), and getTrueDate(15724, 31) < 2479871 <
\* getTrueDate(15725, 1).
C21_BoundaryPreservesTrueDate ==
    wr.op = "fromGregorian"
    => \A r \in LoopOf(variant, WrittenJdn) : BoundaryAgrees(variant, r.n)

(***************************************************************************)
(* Specification of the conversions of instants: JDs and Dates.             *)
(***************************************************************************)
\* days in each window of instants
InstantSpan == 3

\* first day numbers of the windows of instants of each class: a month
\* boundary, the last days before cycle 1, a leap month
InstantStarts(v) ==
    CASE v = Tibetan   -> {2479869, 2096178, 2457515}
      [] v = Mongolian -> {2363814, 2096178, 2460734}
      [] v = Bhutanese -> {2458961, 2096178, 2457515}

\* the local offset of the class in ms: stdTimeOffset + dayStartOffset
LocalOffset(v) == JD_OFFSET_STD_TIME(v) + JD_OFFSET_DAY_START

\* the time of the JD day (which starts at 12:00 UTC) at which the local day
\* of the class starts
LocalDayStart(v) == (-LocalOffset(v)) % MsPerDay

\* times of the JD day: 12:00 and 0:00 UTC, and times around the start of
\* the local day, 4.32 ms before which toFixed(jd, 7) rounds to the next day,
\* 108 ms after which the local time is halfway between two values of seven
\* decimals, and 13 ms after which it is 1 / 216 of the seventh decimal
\* above the middle
DayTimes(v) ==
    {0, MsPerDay \div 2} \cup {LocalDayStart(v) + t : t \in {-5, -4, 0, 13, 108}}

Instants(v) ==
    {Instant(s + k, t) : s \in InstantStarts(v), k \in 0 .. (InstantSpan - 1), t \in DayTimes(v)}

InstantDates(v) ==
    {JDNToCalendarGregorian(s + k) : s \in InstantStarts(v), k \in 0 .. (InstantSpan - 1)}

NextInstant ==
    \/ \E jd \in Instants(variant) : FromJD(jd)
    \/ \E jd \in Instants(variant) : FromDate(JDToDate(jd))
    \/ \E g \in InstantDates(variant) : FromGregorian(g)
    \/ CallToJDN(0)
    \/ ToGregorian(0)
    \/ ToDate(0)
    \/ Get

SpecInstant == Init /\ [][NextInstant]_vars

\* C5: after fromJD, fromGregorian or fromDate on any day, days before the
\* epoch month of the class and before Gregorian year 1027 included, the
\* fields satisfy month in 1..12, day in 1..30, year in 1..60, and leapMonth
\* and leapDay are booleans.
C5_StoredFieldsInRange ==
    wr.op \in {"fromJD", "fromGregorian", "fromDate"}
    => /\ month \in 1 .. 12
       /\ day \in 1 .. 30
       /\ year \in 1 .. 60
       /\ leapMonth \in BOOLEAN
       /\ leapDay \in BOOLEAN

\* the argument of fromJD or fromDate, the result of toDate, as an instant
InstantArg(a) == [d |-> a[1], ms |-> a[2]]

\* instant a is before instant b
InstantLt(a, b) == a.d < b.d \/ (a.d = b.d /\ a.ms < b.ms)

\* the local day numbers (one, whichever way toFixed rounds) of the JD
\* instant jd when the local offset is applied exactly once
LocalDayOnce(v, jd) == TruncFixed(Instant(jd.d, jd.ms + LocalOffset(v)))

\* C9 as stated: each of fromJD, fromGregorian, fromDate, toGregorian and
\* toDate applies the local offset stdTimeOffset + dayStartOffset exactly
\* once: added once on the way into _from, subtracted once on the way out of
\* toJDN.  (A Gregorian date stands for the instant 0:00 UTC of that date,
\* JD day number - 1/2.)
C9_OffsetOnceEverywhere ==
    /\ wr.op = "fromJD" =>
          \E j \in LocalDayOnce(variant, InstantArg(wr.arg)) : Fields \in FromJdn(variant, j)
    /\ wr.op = "fromDate" =>
          \E j \in LocalDayOnce(variant, DateToJD(InstantArg(wr.arg))) :
              Fields \in FromJdn(variant, j)
    /\ wr.op = "fromGregorian" =>
          \E j \in LocalDayOnce(variant,
                                 Instant(CalendarGregorianToJDN(GregorianArg(wr.arg)) - 1,
                                         MsPerDay \div 2)) :
              Fields \in FromJdn(variant, j)
    /\ rd.op = "toDate" =>
          InstantArg(rd.ret)
              = JDToDate(Instant(ToJDN(variant, Fields, rd.gyear), -LocalOffset(variant)))
    /\ rd.op = "toGregorian" =>
          rd.ret = GregorianTuple(JDNToCalendarGregorian(
                       Instant(ToJDN(variant, Fields, rd.gyear),
                               MsPerDay \div 2 - LocalOffset(variant)).d))

\* C9 as the code has it: fromJD and fromDate add the local offset exactly
\* once before _from, and toDate subtracts it exactly once from toJDN;
\* fromGregorian and toGregorian apply no offset: the Gregorian date is the
\* date of the local day itself, numbered by its JD day number.
C9_OffsetOnceForInstants ==
    /\ wr.op = "fromJD" =>
          \E j \in LocalDayOnce(variant, InstantArg(wr.arg)) : Fields \in FromJdn(variant, j)
    /\ wr.op = "fromDate" =>
          \E j \in LocalDayOnce(variant, DateToJD(InstantArg(wr.arg))) :
              Fields \in FromJdn(variant, j)
    /\ wr.op = "fromGregorian" =>
          Fields \in FromJdn(variant, CalendarGregorianToJDN(GregorianArg(wr.arg)))
    /\ rd.op = "toDate" =>
          InstantArg(rd.ret)
              = JDToDate(Instant(ToJDN(variant, Fields, rd.gyear), -LocalOffset(variant)))
    /\ rd.op = "toGregorian" =>
          rd.ret = GregorianTuple(JDNToCalendarGregorian(ToJDN(variant, Fields, rd.gyear)))

\* the case of C9: toDate has returned for fields that fromJD stored from an
\* instant of the local morning, whose local day number is one more than its
\* JD day number
C9_Witness ==
    /\ wr.op = "fromJD"
    /\ rd.op = "toDate"
    /\ LocalDayOnce(variant, InstantArg(wr.arg)) = {wr.arg[1] + 1}
    /\ month \in 1 .. 12
    /\ cycle >= 1

\* C10: toDate() returns the start of the Tibetan day: an instant that
\* fromDate resolves to the fields t lies in [u, u + 1 day), u = toDate() of t.
\* (Stated for the fields within the documented ranges only.)
C10_ToDateIsStartOfDay ==
    (wr.op = "fromDate" /\ rd.op = "toDate" /\ cycle >= 1 /\ year >= 1 /\ month >= 1)
    => /\ ~InstantLt(InstantArg(wr.arg), InstantArg(rd.ret))
       /\ InstantLt(InstantArg(wr.arg), Instant(rd.ret[1] + 1, rd.ret[2]))

(***************************************************************************)
(* Specification of the conversions that start from a Tibetan date.         *)
(***************************************************************************)
\* Gregorian years in each window of years
YearSpan == 1

\* first Gregorian years of the windows: a year with a leap month, a year
\* before the epoch years of CalendarMongolian and CalendarBhutanese
YearStarts == {2016, 1745}

LabelYears == UNION {s .. (s + YearSpan - 1) : s \in YearStarts}

\* every date of the years of the windows, whatever its flags
TibetanDates ==
    {Date(EpochCycleFromYear(Y).cycle, EpochCycleFromYear(Y).year, m, lm, d, ld) :
        Y \in LabelYears, m \in 1 .. 12, lm \in BOOLEAN, d \in 1 .. 30, ld \in BOOLEAN}

\* arguments of set: a date, and values outside the documented ranges
SetDates ==
    {Date(17, 21, 1, FALSE, 2, FALSE),
     Date(17, 21, 13, FALSE, 31, FALSE),
     Date(0, 61, 0, FALSE, 0, FALSE)}

\* the date toGregorian returned last, which the caller converts back
ReturnedDates == IF rd.op = "toGregorian" THEN {GregorianArg(rd.ret)} ELSE {}

InitTibetan == \E v \in Variants : \E f \in TibetanDates \cup SetDates : Constructor(v, f)

NextTibetan ==
    \/ \E f \in SetDates : Set(f)
    \/ CallToJDN(0)
    \/ ToGregorian(0)
    \/ \E g \in ReturnedDates : FromGregorian(g)
    \/ Get

SpecTibetan == InitTibetan /\ [][NextTibetan]_vars

\* the documented ranges of the numeric fields
InDomain(f) ==
    /\ f.cycle >= 1
    /\ f.year \in 1 .. 60
    /\ f.month \in 1 .. 12
    /\ f.day \in 1 .. 30

\* the flags of f as toJDN tests them: leapMonth only on the leap-month slot
\* of the year, leapDay only on a repeated day
FlagsValid(v, f) ==
    /\ f.leapMonth => IsLeapMonthFromYearAndMonth(v, GetGregorianYear(f), f.month)
    /\ f.leapDay => IsRepeatedDay(v, GetTrueMonthCount(v, f, 0), f.day)

\* C3: for every class and every TibetanDate t with cycle >= 1, year in
\* 1..60, month in 1..12, day in 1..30 and valid flags, toGregorian() followed
\* by fromGregorian() of its result yields exactly the six fields of t.
\* (Stated for the labels that name a civil day only: a label that toJDN tests
\* as skipped names none, and is left aside.)
C3_TibetanRoundTrip ==
    [][(/\ wr.op \in {"constructor", "set"}
        /\ InDomain(Fields)
        /\ FlagsValid(variant, Fields)
        /\ ~IsSkippedDay(variant, GetTrueMonthCount(variant, Fields, 0), day)
        /\ rd.op = "toGregorian"
        /\ wr'.op = "fromGregorian"
        /\ wr'.arg = rd.ret)
       => Fields' = Fields]_vars

\* C4: the constructor and set() reject field values outside the documented
\* ranges: after the call the object does not hold them, and no toJDN or
\* toGregorian computes a date from them.
C4_OutOfDomainRejected == wr.op \in {"constructor", "set"} => InDomain(Fields)

\* toJDN() of the fields with day d and leapDay = false
ToJDNOfDay(d) == ToJDN(variant, Date(cycle, year, month, leapMonth, d, FALSE), 0)

\* C8: for fixed (cycle, year, month, leapMonth) and leapDay = false, toJDN()
\* is non-decreasing in day over 1..30; the values of days d and d + 1 differ
\* by 0, 1 or 2: by 0 only when label d is skipped, by 2 only when label
\* d + 1 is repeated.
C8_ToJDNMonotoneInDay ==
    (rd.op = "toJDN" /\ ~leapDay /\ month \in 1 .. 12 /\ day \in 1 .. 29)
    => /\ ToJDNOfDay(day + 1) - rd.ret[1] \in {0, 1, 2}
       /\ ToJDNOfDay(day + 1) - rd.ret[1] = 0
             => IsSkippedDay(variant, GetTrueMonthCount(variant, Fields, 0), day)
       /\ ToJDNOfDay(day + 1) - rd.ret[1] = 2
             => IsRepeatedDay(variant, GetTrueMonthCount(variant, Fields, 0), day + 1)

\* the cases of C8: toJDN() has returned for a skipped label, whose next day
\* has the same day number
C8_Witness ==
    /\ rd.op = "toJDN"
    /\ ~leapDay
    /\ InDomain(Fields)
    /\ day \in 1 .. 29
    /\ IsSkippedDay(variant, GetTrueMonthCount(variant, Fields, 0), day)
    /\ ToJDNOfDay(day + 1) = rd.ret[1]

\* the fields with leapDay = false
SecondOfPair(f) == Date(f.cycle, f.year, f.month, f.leapMonth, f.day, FALSE)

\* the adjustment toJDN has applied to floor(getTrueDate(n, d)) in returning jdn
LeapDayAdjusted(v, n, d, jdn) ==
    jdn - GetTrueDate(v, n, d).int
        = (IF IsRepeatedDay(v, n, d) THEN -1 ELSE IF IsSkippedDay(v, n, d) THEN 1 ELSE 0)

\* C19: toJDN() with leapDay = true returns one less than with
\* leapDay = false when the label is repeated, and the same value for every
\* other label; the +1 of a skipped label and the -1 of a leap day are never
\* both applied.
C19_LeapDayOnlyOnRepeated ==
    (rd.op = "toJDN" /\ leapDay /\ month \in 1 .. 12 /\ day \in 1 .. 30)
    => /\ rd.ret[1] = ToJDN(variant, SecondOfPair(Fields), 0)
                        - (IF IsRepeatedDay(variant, GetTrueMonthCount(variant, Fields, 0), day)
                           THEN 1 ELSE 0)
       /\ LeapDayAdjusted(variant, GetTrueMonthCount(variant, Fields, 0), day, rd.ret[1])

\* the case of C19: toJDN() has returned for leapDay = true on a repeated
\* label, one less than for leapDay = false
C19_Witness ==
    /\ rd.op = "toJDN"
    /\ leapDay
    /\ InDomain(Fields)
    /\ IsRepeatedDay(variant, GetTrueMonthCount(variant, Fields, 0), day)
    /\ rd.ret[1] = ToJDN(variant, SecondOfPair(Fields), 0) - 1

\* C20: for every true month count n and every day d in 1..30,
\* getTrueDate(n, d) > getTrueDate(n, d - 1), and
\* floor(getTrueDate(n, d)) - floor(getTrueDate(n, d - 1)) is 0, 1 or 2.
C20_TrueDateIncreasing ==
    (rd.op = "toJDN" /\ day \in 1 .. 30)
    => TrueDateStep(GetTrueDate(variant, GetTrueMonthCount(variant, Fields, 0), day),
                    GetTrueDate(variant, GetTrueMonthCount(variant, Fields, 0), day - 1))

\* the cases of C20: toJDN() has compared the true dates of a skipped label
\* (step 0) in a month before count 0
C20_Witness ==
    /\ rd.op = "toJDN"
    /\ day \in 1 .. 30
    /\ GetTrueMonthCount(variant, Fields, 0) < 0
    /\ IsSkippedDay(variant, GetTrueMonthCount(variant, Fields, 0), day)

(***************************************************************************)
(* Specification of the leap months of the years.                           *)
(***************************************************************************)
\* cycles of the years: the epoch years 806, 1747 and 1754 lie in cycles -3
\* and 13
LeapCycles == {-3, 1, 13, 17}

LeapMonthDates ==
    {Date(c, y, m, lm, 1, FALSE) : c \in LeapCycles, y \in 1 .. 60, m \in 1 .. 12, lm \in BOOLEAN}

InitLeapMonth == \E v \in Variants : \E f \in LeapMonthDates : Constructor(v, f)

NextLeapMonth ==
    \/ CallToJDN(0)
    \/ Get

SpecLeapMonth == InitLeapMonth /\ [][NextLeapMonth]_vars

\* the months of Gregorian year Y that pass the leap-month test
LeapMonthsOfYear(v, Y) == {M \in 1 .. 12 : IsLeapMonthFromYearAndMonth(v, Y, M)}

\* C7: in every year at most one month M in 1..12 passes
\* _isLeapMonthFromYearAndMonth(Y, M), and toJDN() tells leapMonth = true from
\* leapMonth = false for no other month.
C7_OneLeapMonthPerYear ==
    /\ Cardinality(LeapMonthsOfYear(variant, GetGregorianYear(Fields))) <= 1
    /\ (/\ rd.op = "toJDN"
        /\ rd.ret # <<ToJDN(variant, Date(cycle, year, month, ~leapMonth, day, leapDay), 0)>>)
       => month \in LeapMonthsOfYear(variant, GetGregorianYear(Fields))

\* the case of C7: toJDN() has returned for the leap month of a year, and
\* differs from toJDN() of the regular month of that number
C7_Witness ==
    /\ rd.op = "toJDN"
    /\ leapMonth
    /\ InDomain(Fields)
    /\ LeapMonthsOfYear(variant, GetGregorianYear(Fields)) = {month}
    /\ rd.ret # <<ToJDN(variant, Date(cycle, year, month, FALSE, day, leapDay), 0)>>

\* the leap-month slot of the calendar: 2 * M' - beta, reduced to 0..64, is
\* 0 or 1
IsLeapSlot(v, Y, M) == ((12 * (Y - EPOCH_YEAR(v)) + M) * 2 - GetBeta(v)) % 65 \in {0, 1}

\* the fields with the other value of leapMonth
RegularMonth(f) == Date(f.cycle, f.year, f.month, FALSE, f.day, f.leapDay)

\* the placement of the leap month f with true month count n and day number
\* jdn, against the regular month of its number with nr and jdnr
LeapMonthPlaced(v, f, n, nr, jdn, jdnr) ==
    /\ n - nr \in {1, -1}
    /\ GetTibetanMonthFromTrueMonthCount(v, n).cycle = f.cycle
    /\ GetTibetanMonthFromTrueMonthCount(v, n).year = f.year
    /\ GetTibetanMonthFromTrueMonthCount(v, n).month = f.month
    /\ GetTibetanMonthFromTrueMonthCount(v, nr).cycle = f.cycle
    /\ GetTibetanMonthFromTrueMonthCount(v, nr).year = f.year
    /\ GetTibetanMonthFromTrueMonthCount(v, nr).month = f.month
    /\ IF IS_BHUTAN_LEAP(v) THEN jdn > jdnr ELSE jdn < jdnr

\* C15: when (Y, M) is a leap-month slot, the true month counts of the
\* leapMonth = true month and of the regular month M differ by exactly 1,
\* both counts map backward to (cycle, year, M), and toJDN() of a day of the
\* leapMonth = true month is smaller than toJDN() of that day of the regular
\* month (Bhutanese: greater).
\* Violated: CalendarMongolian (13, 5, 6, true, 1, false), Gregorian year
\* 1751: both months have true month count 53 and the same toJDN().
C15_LeapMonthPlacement ==
    (/\ rd.op = "toJDN"
     /\ leapMonth
     /\ InDomain(Fields)
     /\ IsLeapSlot(variant, GetGregorianYear(Fields), month))
    => LeapMonthPlaced(variant, Fields,
                       GetTrueMonthCount(variant, Fields, 0),
                       GetTrueMonthCount(variant, RegularMonth(Fields), 0),
                       rd.ret[1],
                       ToJDN(variant, RegularMonth(Fields), 0))

(***************************************************************************)
(* Specification of the object and of the objects it is set from.           *)
(***************************************************************************)
\* values of JavaScript a caller passes as a leap flag, by their source text
JsFlagValues == {"true", "false", "undefined", "0", "1"}

\* !!x
ToBoolean(x) == x \in {"true", "1"}

\* the flag b of an instance as a value of JavaScript
JsFlag(b) == IF b THEN "true" ELSE "false"

\* the fields set stores from the six values a of an instance or an array
CoercedFields(a) == Date(a[1], a[2], a[3], ToBoolean(a[4]), a[5], ToBoolean(a[6]))

\* another instance of the class holding the fields f
InstanceOf(f) ==
    [kind |-> "instance",
     f |-> <<f.cycle, f.year, f.month, JsFlag(f.leapMonth), f.day, JsFlag(f.leapDay)>>]

\* numeric fields of the other objects
SourceNumbers == {<<17, 21, 1, 2>>, <<17, 30, 4, 1>>}

\* the other objects: instances, whose flags are booleans, and arrays
Sources ==
    {[kind |-> "instance", f |-> <<q[1], q[2], q[3], JsFlag(lm), q[4], JsFlag(ld)>>] :
        q \in SourceNumbers, lm \in BOOLEAN, ld \in BOOLEAN}
    \cup {[kind |-> "array", f |-> <<q[1], q[2], q[3], lm, q[4], ld>>] :
              q \in SourceNumbers, lm \in JsFlagValues, ld \in {"false", "undefined", "1"}}

\* new Calendar...(other) for an instance or an array
ConstructorFrom(v, s) ==
    /\ variant = v
    /\ cycle = CoercedFields(s.f).cycle
    /\ year = CoercedFields(s.f).year
    /\ month = CoercedFields(s.f).month
    /\ leapMonth = CoercedFields(s.f).leapMonth
    /\ day = CoercedFields(s.f).day
    /\ leapDay = CoercedFields(s.f).leapDay
    /\ wr = [op |-> "constructor", arg |-> <<s.kind, s.f>>]
    /\ rd = NoRead
    /\ src = s

\* set(other) for the instance or the array the caller holds
SetFrom ==
    /\ src.kind \in {"instance", "array"}
    /\ Write("set", <<src.kind, src.f>>, CoercedFields(src.f))

\* the caller sets the other instance to the fields of this object, assigns
\* to the elements of the array, or takes another object
SourceSet(s) ==
    /\ src' = s
    /\ UNCHANGED <<variant, cycle, year, month, leapMonth, day, leapDay, wr, rd>>

ObjectDays == {2457516, 2455984}

InitObject == \E v \in Variants : \E s \in Sources : ConstructorFrom(v, s)

NextObject ==
    \/ SetFrom
    \/ \E f \in SetDates : Set(f)
    \/ \E s \in Sources \cup {InstanceOf(Fields)} : SourceSet(s)
    \/ \E j \in ObjectDays : FromJD(Instant(j, 0))
    \/ \E j \in ObjectDays : FromGregorian(JDNToCalendarGregorian(j))
    \/ \E j \in ObjectDays : FromDate(JDToDate(Instant(j, 0)))
    \/ CallToJDN(0)
    \/ ToGregorian(0)
    \/ ToDate(0)
    \/ Get

SpecObject == InitObject /\ [][NextObject]_vars

\* a step of a call that writes the fields
IsWrite == wr' # wr \/ (rd # NoRead /\ rd' = NoRead)

\* the fields a writing call may store, by the call wr' records
WrittenFields ==
    CASE wr'.op = "set" /\ Len(wr'.arg) = 2 -> {CoercedFields(src.f)}
      [] wr'.op = "set" /\ Len(wr'.arg) = 6 ->
            {Date(wr'.arg[1], wr'.arg[2], wr'.arg[3], wr'.arg[4], wr'.arg[5], wr'.arg[6])}
      [] wr'.op = "fromGregorian" ->
            FromJdn(variant, CalendarGregorianToJDN(GregorianArg(wr'.arg)))
      [] wr'.op = "fromJD" -> From(variant, JdToJdLocal(variant, InstantArg(wr'.arg)))
      [] wr'.op = "fromDate" ->
            From(variant, JdToJdLocal(variant, DateToJD(InstantArg(wr'.arg))))

\* C11: the six fields change only through set(), called directly or by
\* fromJD, fromGregorian or fromDate, which replaces all six together; toJDN,
\* toGregorian, toDate and get leave them unchanged; setting from another
\* instance or from an array copies its six values, the leap flags coerced to
\* booleans, and leaves the other object unchanged, and a later change of the
\* other object does not reach the fields.
C11_FieldsReplacedTogether ==
    [][/\ Fields' # Fields => IsWrite
       /\ IsWrite =>
             /\ wr'.op \in {"set", "fromJD", "fromGregorian", "fromDate"}
             /\ Fields' \in WrittenFields
             /\ leapMonth' \in BOOLEAN /\ leapDay' \in BOOLEAN
             /\ src' = src
       /\ rd' # rd /\ rd' # NoRead =>
             /\ rd'.op \in {"toJDN", "toGregorian", "toDate", "get"}
             /\ Fields' = Fields /\ src' = src
       /\ src' # src => Fields' = Fields]_vars

\* the case of C11: set was given an array whose leapMonth is the number 1
\* and whose leapDay is undefined, and get has returned the fields
C11_Witness ==
    /\ wr.op = "set"
    /\ Len(wr.arg) = 2
    /\ src.kind = "array"
    /\ src.f[4] = "1"
    /\ src.f[6] = "undefined"
    /\ rd.op = "get"
    /\ rd.ret = <<src.f[1], src.f[2], src.f[3], TRUE, src.f[5], FALSE>>

(***************************************************************************)
(* Specification of the month counter: the private methods called on an    *)
(* object, as _from and toJDN call them.                                    *)
(***************************************************************************)
\* number of true month counts taken from each start
CountSpan == 12

\* the four values _getTibetanMonthFromTrueMonthCount returns
MonthTuple(m) == <<m.cycle, m.year, m.month, m.leapMonth>>

\* true month counts: before count 0, around it, up to the Mongolian and
\* Bhutanese leap months before their epochs' residue turns positive, and
\* in the years 2016 and 2020
CountStarts == {-75, -6, 45, 3330, 14960}

MonthCounts == {c + k : c \in CountStarts, k \in 0 .. CountSpan - 1}

\* Gregorian years: around the epoch of the cycles (1027) and the epochs of
\* the classes (806, 1747, 1754), and recent ones
GregorianYears == (1020 .. 1030) \cup {805, 806, 966, 967, 1745, 1746, 1747, 1751, 1753, 1754, 2016, 2020}

\* _getTibetanMonthFromTrueMonthCount(n): returns the month, assigns nothing
CallGetTibetanMonth(n) ==
    /\ rd' = [op |-> "_getTibetanMonthFromTrueMonthCount", gyear |-> 0, arg |-> <<n>>,
              ret |-> MonthTuple(GetTibetanMonthFromTrueMonthCount(variant, n))]
    /\ UNCHANGED <<variant, cycle, year, month, leapMonth, day, leapDay, wr, src>>

\* the month _getTibetanMonthFromTrueMonthCount returned last, which the
\* caller sets with day 1
ReturnedMonths ==
    IF rd.op = "_getTibetanMonthFromTrueMonthCount"
    THEN {Date(rd.ret[1], rd.ret[2], rd.ret[3], rd.ret[4], 1, FALSE)}
    ELSE {}

\* _getTrueMonthCount() of the object
CallGetTrueMonthCount ==
    Read("_getTrueMonthCount", 0, <<GetTrueMonthCount(variant, Fields, 0)>>)

\* _isLeapMonthFromYearAndMonth(Y, this.month), as _getTrueMonthCount(gyear)
\* calls it
CallIsLeapMonth(gyear) ==
    Read("_isLeapMonthFromYearAndMonth", gyear,
         <<IsLeapMonthFromYearAndMonth(variant, gyear, month)>>)

\* epochCycleFromYear(gyear)
CallEpochCycleFromYear(gyear) ==
    Read("epochCycleFromYear", gyear,
         <<EpochCycleFromYear(gyear).cycle, EpochCycleFromYear(gyear).year>>)

InitMonth == \E v \in Variants : \E n \in MonthCounts :
    Constructor(v, FromFields(GetTibetanMonthFromTrueMonthCount(v, n), [day |-> 1, leapDay |-> FALSE]))

NextMonth ==
    \/ \E n \in MonthCounts : CallGetTibetanMonth(n)
    \/ \E f \in ReturnedMonths : Set(f)
    \/ CallGetTrueMonthCount
    \/ \E gyear \in GregorianYears : CallIsLeapMonth(gyear)
    \/ \E gyear \in GregorianYears : CallEpochCycleFromYear(gyear)

SpecMonth == InitMonth /\ [][NextMonth]_vars

\* C12: when the object carries the four values that
\* _getTibetanMonthFromTrueMonthCount(n) returns, _getTrueMonthCount()
\* returns n, and the leapMonth flag returned is true only for a
\* (year, month) that passes the leap-month test.
\* Violated: CalendarMongolian, n = 52 returns (13, 5, 6, true), and
\* _getTrueMonthCount() of these returns 53.
C12_MonthCountRoundTrip ==
    rd.op = "_getTrueMonthCount"
    => \A n \in MonthCounts :
          MonthTuple(GetTibetanMonthFromTrueMonthCount(variant, n)) = MonthTuple(Fields)
          => /\ rd.ret = <<n>>
             /\ leapMonth => IsLeapMonthFromYearAndMonth(variant, GetGregorianYear(Fields), month)

\* C13: for a month in 1..12, _isLeapMonthFromYearAndMonth(Y, M) is true
\* exactly when 2 * M' - beta, reduced to the range 0..64, is 0 or 1.
\* Violated: CalendarMongolian, (1751, 6): 2 * M' - beta = -64, residue 1,
\* and the method returns false.
C13_LeapTestByResidue ==
    (rd.op = "_isLeapMonthFromYearAndMonth" /\ month \in 1 .. 12)
    => rd.ret[1] = (((12 * (rd.gyear - EPOCH_YEAR(variant)) + month) * 2 - GetBeta(variant)) % 65 \in {0, 1})

\* C14: epochCycleFromYear(Y) returns year in 1..60 and
\* cycle = floor((Y - 1027) / 60) + 1, and _getGregorianYear() of that cycle
\* and year is Y.
\* Violated: epochCycleFromYear(1026) returns cycle 0 and year 0, whose
\* _getGregorianYear() is 966.
C14_CycleYearInverse ==
    rd.op = "epochCycleFromYear"
    => /\ rd.ret[2] \in 1 .. 60
       /\ rd.ret[1] = FloorDiv(rd.gyear - EPOCH_RAB_BYUNG, 60) + 1
       /\ GetGregorianYear([cycle |-> rd.ret[1], year |-> rd.ret[2]]) = rd.gyear

(***************************************************************************)
(* Specification of the equation tables: _linearInterpolate called with    *)
(* the arguments getTrueDate passes and with others, negative ones too.     *)
(***************************************************************************)
\* the arguments x_in are the multiples of 1 / TableDen
TableDen == 4

\* the two calls of getTrueDate: table, halfSymmetryLen, periodLen
TableOf(tab) ==
    IF tab = "moon"
    THEN [values |-> moon_tab_values, half |-> 7, period |-> 28]
    ELSE [values |-> sun_tab_values, half |-> 3, period |-> 12]

\* _linearInterpolate(x / TableDen, ..) with the table t, as a numerator over TableDen
InterpolateWith(t, x) == LinearInterpolate(x, TableDen, t.values, t.half, t.period)

\* numerators of x_in: one period below 0 and two above
TableArgs(tab) == (-(TableOf(tab).period * TableDen)) .. (2 * TableOf(tab).period * TableDen)

\* _linearInterpolate(x / TableDen, table, halfSymmetryLen, periodLen)
CallLinearInterpolate(tab, x) ==
    /\ rd' = [op |-> "_linearInterpolate", gyear |-> 0, arg |-> <<tab, x>>,
              ret |-> <<InterpolateWith(TableOf(tab), x)>>]
    /\ UNCHANGED <<variant, cycle, year, month, leapMonth, day, leapDay, wr, src>>

InitTable == \E v \in Variants : \E f \in InitialDates : Constructor(v, f)

NextTable == \E tab \in {"moon", "sun"} : \E x \in TableArgs(tab) : CallLinearInterpolate(tab, x)

SpecTable == InitTable /\ [][NextTable]_vars

\* the properties of the value val returned for x with the table t
FoldedPeriodic(t, x, val) ==
    /\ InterpolateWith(t, x + t.period * TableDen) = val
    /\ InterpolateWith(t, x + 2 * t.half * TableDen) = -val
    /\ InterpolateWith(t, 2 * t.half * TableDen - x) = val
    /\ (x % TableDen = 0 /\ x \div TableDen \in 0 .. t.half)
          => val = t.values[(x \div TableDen) + 1] * TableDen
    /\ val <= t.values[Len(t.values)] * TableDen
    /\ -val <= t.values[Len(t.values)] * TableDen

\* C18: for both tables and every x, negative x included, _linearInterpolate
\* satisfies f(x + period) = f(x), f(x + 2 * half) = -f(x),
\* f(2 * half - x) = f(x), f(i) = table[i] for every integer i in 0..half,
\* and |f(x)| is never above the last table value.
C18_FoldedPeriodic ==
    rd.op = "_linearInterpolate"
    => FoldedPeriodic(TableOf(rd.arg[1]), rd.arg[2], rd.ret[1])

\* the case of C18: _linearInterpolate has returned for a negative x that is
\* no integer, in the antisymmetric half of the period, with a value that
\* is not 0
C18_Witness ==
    /\ rd.op = "_linearInterpolate"
    /\ rd.arg[2] < 0
    /\ rd.arg[2] % TableDen # 0
    /\ rd.ret[1] < 0

=============================================================================
